---- MODULE Spec2Model ----
(***************************************************************************)
(* A model of multitext::parse_lines (src/lib.rs).  A line is a sequence   *)
(* of one-character strings, so that find, split_at, trim_end, trim and    *)
(* starts_with are computed on the characters as the library computes      *)
(* them.  The iterator handed to parse_lines is the environment: each call *)
(* of next() yields either some line or None.  One action is one pass      *)
(* through one of the two loops of parse_lines.  open_and_parse_file, which *)
(* calls parse_lines on the lines of a file, is modelled after it.         *)
(***************************************************************************)
EXTENDS Naturals, Integers, Sequences, FiniteSets, TLC

\* The longest input (number of lines the iterator yields before None).
MaxLines == 4

----------------------------------------------------------------------------
(* Characters and strings *)

NL == "\n"

\* char::is_whitespace, restricted to the characters that occur in the model
IsWhitespace(c) == c \in {" ", "\t", NL}

\* the literal "multitext header"
HEADER == <<"m","u","l","t","i","t","e","x","t"," ","h","e","a","d","e","r">>

\* Option<T>
None == <<>>
Some(x) == <<x>>

\* str::find, scanning from byte offset i: the first offset at which needle occurs
RECURSIVE FindFrom(_, _, _)
FindFrom(line, needle, i) ==
    IF i + Len(needle) > Len(line) THEN None
    ELSE IF SubSeq(line, i + 1, i + Len(needle)) = needle THEN Some(i)
    ELSE FindFrom(line, needle, i + 1)

\* a find that looks at the start of the line only
FindAtStart(line, needle) ==
    IF Len(needle) <= Len(line) /\ SubSeq(line, 1, Len(needle)) = needle
    THEN Some(0) ELSE None

\* str::rfind: the last offset at which needle occurs
RECURSIVE FindBack(_, _, _)
FindBack(line, needle, i) ==
    IF i < 0 THEN None
    ELSE IF SubSeq(line, i + 1, i + Len(needle)) = needle THEN Some(i)
    ELSE FindBack(line, needle, i - 1)

\* a find that takes the last occurrence
FindLast(line, needle) == FindBack(line, needle, Len(line) - Len(needle))

Find(line, needle) == FindFrom(line, needle, 0)

\* str::split_at(mid): (the first mid characters, the rest)
SplitAt(s, mid) == <<SubSeq(s, 1, mid), SubSeq(s, mid + 1, Len(s))>>

\* str::trim_end
RECURSIVE TrimEnd(_)
TrimEnd(s) ==
    IF s = <<>> THEN s
    ELSE IF IsWhitespace(s[Len(s)]) THEN TrimEnd(SubSeq(s, 1, Len(s) - 1))
    ELSE s

\* str::trim_start
RECURSIVE TrimStart(_)
TrimStart(s) ==
    IF s = <<>> THEN s
    ELSE IF IsWhitespace(s[1]) THEN TrimStart(SubSeq(s, 2, Len(s)))
    ELSE s

\* str::trim
Trim(s) == TrimStart(TrimEnd(s))

\* a starts_with that no string passes for the empty pattern
StartsWithNonEmpty(s, p) == p # <<>> /\ Len(p) <= Len(s) /\ SubSeq(s, 1, Len(p)) = p

\* str::starts_with
StartsWith(s, p) == Len(p) <= Len(s) /\ SubSeq(s, 1, Len(p)) = p

----------------------------------------------------------------------------
(* The lines the iterator can yield *)

\* " a  multitext header#multitext header": a header line whose marker " a" has
\* whitespace on both sides and which holds the literal twice
HeaderLineA == ((<<" ", "a", " ", " ">> \o HEADER) \o <<"#">>) \o HEADER

Pool ==
    { <<"#">> \o HEADER,                          \* "#multitext header"
      HeaderLineA,
      HEADER,                                      \* "multitext header"
      <<" ", " ">> \o HEADER,                      \* "  multitext header"
      <<"#", " ", "a", " ">>,                      \* "# a "
      <<" ", "a", "#">>,                           \* " a#"
      <<" ", "A", "#">>,                           \* " A#"
      <<"a", "#">>,                                \* "a#"
      <<" ">> }                                    \* " "

----------------------------------------------------------------------------
(* HashMap<String, String> and Result<Map, Error> *)

EmptyMap == [k \in {} |-> <<>>]

\* an insert that keeps the value of an existing key (entry().or_insert)
MapInsertKeepFirst(m, k, v) ==
    [x \in (DOMAIN m) \cup {k} |-> IF x \in DOMAIN m THEN m[x] ELSE v]

\* HashMap::insert: the value of an existing key is replaced
MapInsert(m, k, v) == [x \in (DOMAIN m) \cup {k} |-> IF x = k THEN v ELSE m[x]]

MissingHeaderError(n) ==
    [line_number |-> Some(n), filename |-> None,
     error_message |-> "missing multitext header"]

Pending == [kind |-> "Pending"]
Err(e) == [kind |-> "Err", error |-> e]
Ok(m) == [kind |-> "Ok", map |-> m]

----------------------------------------------------------------------------
(* parse_lines *)

VARIABLES
    pc,           \* "discover": first loop; "accumulate": second loop; "done": returned
    line_number,  \* the counter of the first loop
    prefix,       \* the marker (defined once pc # "discover")
    name,         \* name of the current section
    text,         \* body of the current section
    map,          \* the HashMap being built
    result,       \* what parse_lines returned
    consumed,     \* history: the lines the iterator has yielded, in order
    branch,       \* history: the branch of the code each consumed line took
    path,         \* open_and_parse_file: its argument (None: parse_lines called directly)
    returned      \* open_and_parse_file: what it returned

vars == <<pc, line_number, prefix, name, text, map, result, consumed, branch,
          path, returned>>

Init ==
    /\ pc = "discover"
    /\ line_number = 0
    /\ prefix = <<>>
    /\ name = <<>>
    /\ text = <<>>
    /\ map = EmptyMap
    /\ result = Pending
    /\ consumed = <<>>
    /\ branch = <<>>
    /\ path = None
    /\ returned = Pending

\* it.next() yields Some(line)
Yield(line, how) ==
    /\ Len(consumed) < MaxLines
    /\ consumed' = Append(consumed, line)
    /\ branch' = Append(branch, how)

\* a marker trimmed on both sides
MarkerOfTrimBoth(line, index) == Trim(SplitAt(line, index)[1])

\* a marker that keeps its trailing whitespace
MarkerOfNoTrim(line, index) == SplitAt(line, index)[1]

\* the marker taken from a line in which "multitext header" occurs at offset index
MarkerOf(line, index) == TrimEnd(SplitAt(line, index)[1])

\* a first section that starts without a name
FirstNameEmpty == <<>>

\* the name of the first section
FirstName == HEADER

\* a section name trimmed on the right only
SectionNameTrimEndOnly(line, marker) == TrimEnd(SplitAt(line, Len(marker))[2])

\* the name of the section a marker line opens
SectionName(line, marker) == Trim(SplitAt(line, Len(marker))[2])

\* a push of the line without the newline
PushLineNoNewline(t, line) == t \o line

\* text.push_str(line); text.push('\n')
PushLine(t, line) == (t \o line) \o <<NL>>

\* an error return that reports the counter as it was before this pass
DiscoverMissingNoIncrement ==
    /\ pc = "discover"
    /\ line_number' = line_number
    /\ result' = Err(MissingHeaderError(line_number'))
    /\ pc' = "done"
    /\ UNCHANGED <<path, returned, prefix, name, text, map, consumed, branch>>

\* first loop, it.next() is None: the error return
DiscoverMissing ==
    /\ pc = "discover"
    /\ line_number' = line_number + 1
    /\ result' = Err(MissingHeaderError(line_number'))
    /\ pc' = "done"
    /\ UNCHANGED <<path, returned, prefix, name, text, map, consumed, branch>>

\* first loop, a line without "multitext header"
DiscoverSkip(line) ==
    /\ pc = "discover"
    /\ Find(line, HEADER) = None
    /\ Yield(line, "skip")
    /\ line_number' = line_number + 1
    /\ UNCHANGED <<path, returned, pc, prefix, name, text, map, result>>

\* a header line handled like a marker line: the first section named by its rest
DiscoverFoundNamesFromLine(line) ==
    /\ pc = "discover"
    /\ Find(line, HEADER) # None
    /\ Yield(line, "header")
    /\ line_number' = line_number + 1
    /\ prefix' = MarkerOf(line, Find(line, HEADER)[1])
    /\ name' = SectionName(line, prefix')
    /\ text' = <<>>
    /\ pc' = "accumulate"
    /\ UNCHANGED <<path, returned, map, result>>

\* a header line at which a (still empty) mapping is handed out at once
DiscoverFoundReturnsEarly(line) ==
    /\ pc = "discover"
    /\ Find(line, HEADER) # None
    /\ Yield(line, "header")
    /\ line_number' = line_number + 1
    /\ prefix' = MarkerOf(line, Find(line, HEADER)[1])
    /\ name' = FirstName
    /\ text' = <<>>
    /\ pc' = "accumulate"
    /\ result' = Ok(map)
    /\ UNCHANGED <<path, returned, map>>

\* first loop, the line with "multitext header": break with the marker
DiscoverFound(line) ==
    /\ pc = "discover"
    /\ Find(line, HEADER) # None
    /\ Yield(line, "header")
    /\ line_number' = line_number + 1
    /\ prefix' = MarkerOf(line, Find(line, HEADER)[1])
    /\ name' = FirstName
    /\ text' = <<>>
    /\ pc' = "accumulate"
    /\ UNCHANGED <<path, returned, map, result>>

\* a marker line that opens the next section without storing the current one
AccumulateMarkerNoInsert(line) ==
    /\ pc = "accumulate"
    /\ StartsWith(line, prefix)
    /\ Yield(line, "marker")
    /\ name' = SectionName(line, prefix)
    /\ text' = <<>>
    /\ UNCHANGED <<path, returned, pc, line_number, prefix, map, result>>

\* a marker line that is also pushed to the body of the section it opens
AccumulateMarkerKeepsLine(line) ==
    /\ pc = "accumulate"
    /\ StartsWith(line, prefix)
    /\ Yield(line, "marker")
    /\ map' = MapInsert(map, name, text)
    /\ name' = SectionName(line, prefix)
    /\ text' = PushLine(<<>>, line)
    /\ UNCHANGED <<path, returned, pc, line_number, prefix, result>>

\* second loop, a line that starts with the marker
AccumulateMarker(line) ==
    /\ pc = "accumulate"
    /\ StartsWith(line, prefix)
    /\ Yield(line, "marker")
    /\ map' = MapInsert(map, name, text)
    /\ name' = SectionName(line, prefix)
    /\ text' = <<>>
    /\ UNCHANGED <<path, returned, pc, line_number, prefix, result>>

\* a body line that declares the marker again when it holds "multitext header"
AccumulateBodyRediscovers(line) ==
    /\ pc = "accumulate"
    /\ ~StartsWith(line, prefix)
    /\ Yield(line, "body")
    /\ text' = PushLine(text, line)
    /\ prefix' = IF Find(line, HEADER) # None
                 THEN MarkerOf(line, Find(line, HEADER)[1]) ELSE prefix
    /\ UNCHANGED <<path, returned, pc, line_number, name, map, result>>

\* second loop, any other line
AccumulateBody(line) ==
    /\ pc = "accumulate"
    /\ ~StartsWith(line, prefix)
    /\ Yield(line, "body")
    /\ text' = PushLine(text, line)
    /\ UNCHANGED <<path, returned, pc, line_number, prefix, name, map, result>>

\* a return without the last insert
FinishNoInsert ==
    /\ pc = "accumulate"
    /\ map' = map
    /\ result' = Ok(map')
    /\ pc' = "done"
    /\ UNCHANGED <<path, returned, line_number, prefix, name, text, consumed, branch>>

\* second loop, the iterator is exhausted: the last insert and the Ok return
Finish ==
    /\ pc = "accumulate"
    /\ map' = MapInsert(map, name, text)
    /\ result' = Ok(map')
    /\ pc' = "done"
    /\ UNCHANGED <<path, returned, line_number, prefix, name, text, consumed, branch>>

Next ==
    \/ DiscoverMissing
    \/ \E line \in Pool : DiscoverSkip(line)
    \/ \E line \in Pool : DiscoverFound(line)
    \/ \E line \in Pool : AccumulateMarker(line)
    \/ \E line \in Pool : AccumulateBody(line)
    \/ Finish

Spec == Init /\ [][Next]_vars

\* parse_lines is a synchronous loop: as long as it has not returned it takes its
\* next step (the iterator answers every call of next()).
FairSpec == Spec /\ WF_vars(Next)

----------------------------------------------------------------------------
(* open_and_parse_file *)

\* The paths it is called with: one that is valid Unicode and one that is not
\* (Path::to_str is None for it).
Paths == { [os |-> "in.mt", unicode |-> TRUE], [os |-> "in<FF>.mt", unicode |-> FALSE] }

\* Path::to_str
ToStr(p) == IF p.unicode THEN Some(p.os) ELSE None

\* From<std::io::Error> for Error
IoError == [line_number |-> None, filename |-> None, error_message |-> "io error"]

\* the thread panicked: nothing is returned
Panicked == [kind |-> "Panic"]

FileInit ==
    /\ pc = "discover"
    /\ line_number = 0
    /\ prefix = <<>>
    /\ name = <<>>
    /\ text = <<>>
    /\ map = EmptyMap
    /\ result = Pending
    /\ consumed = <<>>
    /\ branch = <<>>
    /\ path \in { Some(p) : p \in Paths }
    /\ returned = Pending

\* File::open(path)? fails: the io error is converted and returned, parse_lines
\* is never called
OpenFails ==
    /\ path # None
    /\ pc = "discover"
    /\ line_number = 0
    /\ returned = Pending
    /\ returned' = Err(IoError)
    /\ pc' = "not called"
    /\ UNCHANGED <<line_number, prefix, name, text, map, result, consumed, branch, path>>

\* parse_lines returned Err(e): the or_else closure sets e.filename from
\* path.to_str().unwrap(), which panics when to_str is None
AttachFilename ==
    /\ path # None
    /\ pc = "done"
    /\ result.kind = "Err"
    /\ returned = Pending
    /\ returned' = IF ToStr(path[1]) = None THEN Panicked
                   ELSE Err([result.error EXCEPT !.filename = Some(ToStr(path[1])[1])])
    /\ UNCHANGED <<pc, line_number, prefix, name, text, map, result, consumed, branch, path>>

\* parse_lines returned Ok(map): or_else passes it on
PassOk ==
    /\ path # None
    /\ pc = "done"
    /\ result.kind = "Ok"
    /\ returned = Pending
    /\ returned' = result
    /\ UNCHANGED <<pc, line_number, prefix, name, text, map, result, consumed, branch, path>>

\* The iterator handed to parse_lines is file.lines().filter_map(|s| s.ok()): a
\* line that cannot be read is dropped before parse_lines sees it, so the lines
\* consumed are the readable ones.
FileNext ==
    \/ OpenFails
    \/ DiscoverMissing
    \/ \E line \in Pool : DiscoverSkip(line)
    \/ \E line \in Pool : DiscoverFound(line)
    \/ \E line \in Pool : AccumulateMarker(line)
    \/ \E line \in Pool : AccumulateBody(line)
    \/ Finish
    \/ AttachFilename
    \/ PassOk

FileSpec == FileInit /\ [][FileNext]_vars

----------------------------------------------------------------------------
(* The format as the documentation describes it, stated on the consumed     *)
(* lines alone (no loop, no accumulator): what the claims compare the       *)
(* parser's state with.                                                     *)

Max(S) == CHOOSE x \in S : \A y \in S : y <= x
Min(S) == CHOOSE x \in S : \A y \in S : x <= y

\* the offsets at which "multitext header" occurs in a line
Occurrences(line) ==
    { i \in 0..(Len(line) - Len(HEADER)) : SubSeq(line, i + 1, i + Len(HEADER)) = HEADER }

ContainsHeader(line) == Occurrences(line) # {}

\* the positions (1-based) of the consumed lines that contain "multitext header"
HeaderLines == { i \in 1..Len(consumed) : ContainsHeader(consumed[i]) }

HasHeader == \E i \in 1..Len(consumed) : ContainsHeader(consumed[i])

\* the position of the header line
K == Min(HeaderLines)

\* s is empty or whitespace throughout
Blank(s) == \A j \in 1..Len(s) : IsWhitespace(s[j])

\* the positions of the first and of the last character of s that is not whitespace
FirstSolid(s) ==
    CHOOSE j \in 1..Len(s) :
        ~IsWhitespace(s[j]) /\ \A i \in 1..(j - 1) : IsWhitespace(s[i])
LastSolid(s) ==
    CHOOSE j \in 1..Len(s) :
        ~IsWhitespace(s[j]) /\ \A i \in (j + 1)..Len(s) : IsWhitespace(s[i])

\* s without the whitespace at its end
StripRight(s) == IF Blank(s) THEN <<>> ELSE SubSeq(s, 1, LastSolid(s))

\* s without the whitespace at both ends
Strip(s) == IF Blank(s) THEN <<>> ELSE SubSeq(s, FirstSolid(s), LastSolid(s))

\* the marker a header line declares
DeclaredMarker(line) == StripRight(SubSeq(line, 1, Min(Occurrences(line))))

\* line begins with the characters of p
HasPrefix(line, p) == Len(p) <= Len(line) /\ \A j \in 1..Len(p) : line[j] = p[j]

\* the marker of the consumed input, and the lines after its header line
Marker == DeclaredMarker(consumed[K])
AfterHeader == LET k == K IN SubSeq(consumed, k + 1, Len(consumed))

\* each line followed by one newline
RECURSIVE JoinLines(_)
JoinLines(lines) ==
    IF lines = <<>> THEN <<>>
    ELSE (Head(lines) \o <<NL>>) \o JoinLines(Tail(lines))

\* Sections of the lines `rest` that follow a header line, under marker p.  A
\* section is named by the position in rest of its marker line; 0 is the section
\* the header line opens.  starts is the set of these positions.
SecStarts(p, rest) == {0} \cup { i \in 1..Len(rest) : HasPrefix(rest[i], p) }

SecEnd(rest, starts, i) == Min({ j \in starts : j > i } \cup {Len(rest) + 1})

SecName(p, rest, i) ==
    IF i = 0 THEN HEADER ELSE Strip(SubSeq(rest[i], Len(p) + 1, Len(rest[i])))

SecBody(rest, starts, i) == JoinLines(SubSeq(rest, i + 1, SecEnd(rest, starts, i) - 1))

\* the mapping a header with marker p followed by the lines rest stands for: each
\* section name with the body of the last section of that name
ExpectedMap(p, rest) ==
    LET starts == SecStarts(p, rest)
        names == [ i \in starts |-> SecName(p, rest, i) ]
    IN  [ nm \in { names[i] : i \in starts } |->
            SecBody(rest, starts, Max({ i \in starts : names[i] = nm })) ]

Returned == pc = "done"
ReturnedOk == pc = "done" /\ result.kind = "Ok"
ReturnedErr == pc = "done" /\ result.kind = "Err"

----------------------------------------------------------------------------
(* C1 *)

----------------------------------------------------------------------------
(* C2 *)

\* C2: parse_lines fails exactly when no consumed line contains "multitext
\* header"; the failure is the missing-header error and carries no mapping; once
\* the header line is found no error is produced: every line is accepted by the
\* second loop, and the end of input gives Ok.
C2_FailsIffNoHeader ==
    /\ Returned => /\ result.kind \in {"Ok", "Err"}
                   /\ (result.kind = "Err") <=> ~HasHeader
    /\ result.kind = "Err" =>
        /\ DOMAIN result = {"kind", "error"}
        /\ result.error.error_message = "missing multitext header"
        /\ result.error.filename = None
    /\ result.kind = "Ok" => DOMAIN result = {"kind", "map"}
    /\ pc = "accumulate" =>
        /\ HasHeader
        /\ result = Pending
        /\ ENABLED Finish
        /\ Len(consumed) < MaxLines =>
             \A line \in Pool : ENABLED (AccumulateMarker(line) \/ AccumulateBody(line))

\* a header line was found after a line without one, further lines followed, one
\* of them holding "multitext header" again, and Ok was returned
C2_Witness ==
    /\ ReturnedOk
    /\ K = 2
    /\ Cardinality(HeaderLines) = 2
    /\ Len(consumed) = 4

----------------------------------------------------------------------------
(* C3 *)

\* C3 (as stated): when the first header line is line K with trimmed prefix P,
\* parse_lines succeeds and maps "multitext header" to the lines strictly between
\* line K and the next line starting with P (all remaining lines if there is
\* none), each followed by a newline.
C3_HeaderBodyIsFirstSection ==
    (Returned /\ HasHeader) =>
        LET rest == AfterHeader
            starts == SecStarts(Marker, rest)
        IN  /\ result.kind = "Ok"
            /\ HEADER \in DOMAIN result.map
            /\ result.map[HEADER] = SecBody(rest, starts, 0)

\* C3 (amended): ... maps "multitext header" to that text provided no later
\* marker line has the trimmed name "multitext header"; when one has, the value
\* is the body of the last section of that name.
C3_HeaderBodyUnlessRenamed ==
    (Returned /\ HasHeader) =>
        LET p == Marker
            rest == AfterHeader
            starts == SecStarts(p, rest)
            last == Max({ i \in starts : SecName(p, rest, i) = HEADER })
        IN  /\ result.kind = "Ok"
            /\ HEADER \in DOMAIN result.map
            /\ last = 0 => result.map[HEADER] = SecBody(rest, starts, 0)
            /\ result.map[HEADER] = SecBody(rest, starts, last)

\* the header line came second, its section has a body and is closed by a marker
\* line, and no later section is named "multitext header"
C3_Witness ==
    /\ ReturnedOk
    /\ K = 2
    /\ LET p == Marker
           rest == AfterHeader
           starts == SecStarts(p, rest)
       IN  /\ Cardinality(starts) = 2
           /\ \A i \in starts \ {0} : SecName(p, rest, i) # HEADER
    /\ result.map[HEADER] # <<>>
    /\ result.map[HEADER] # JoinLines(AfterHeader)

----------------------------------------------------------------------------
(* C4 *)

\* C4: when several sections have the same trimmed name (the first section,
\* named "multitext header", included), the mapping's value for the name is the
\* body of the last of them alone; the earlier bodies are dropped, not joined.
C4_LaterSectionOverwrites ==
    ReturnedOk =>
        LET p == Marker
            rest == AfterHeader
            starts == SecStarts(p, rest)
            names == [ i \in starts |-> SecName(p, rest, i) ]
        IN  \A i \in starts :
              (\E j \in starts : j > i /\ names[j] = names[i]) =>
                LET last == Max({ j \in starts : names[j] = names[i] })
                IN  /\ names[i] \in DOMAIN result.map
                    /\ result.map[names[i]] = SecBody(rest, starts, last)
                    /\ SecBody(rest, starts, i) # <<>> =>
                         result.map[names[i]]
                           # SecBody(rest, starts, i) \o SecBody(rest, starts, last)

\* two sections named "a", the first with a body, the second without
C4_Witness ==
    /\ ReturnedOk
    /\ prefix = <<"#">>
    /\ consumed = << <<"#">> \o HEADER, <<"#", " ", "a", " ">>, <<" ">>,
                     <<"#", " ", "a", " ">> >>
    /\ result.map[<<"a">>] = <<>>

----------------------------------------------------------------------------
(* C5 *)

\* C5: the marker is the text of the first line containing "multitext header"
\* that precedes the first occurrence of it, without its trailing whitespace and
\* with its leading whitespace; a later line is handled as a marker line exactly
\* when it starts with the marker.
C5_MarkerAndMarkerLines ==
    pc # "discover" /\ HasHeader =>
        LET k == K
            p == DeclaredMarker(consumed[k])
        IN  /\ branch[k] = "header"
            /\ prefix = p
            /\ \A i \in (k + 1)..Len(consumed) :
                /\ branch[i] \in {"marker", "body"}
                /\ (branch[i] = "marker") <=> HasPrefix(consumed[i], p)

\* the marker " a" was declared with trailing whitespace before "multitext
\* header"; " a#" was handled as a marker line, "a#" and " A#" as body
C5_Witness ==
    /\ pc = "accumulate"
    /\ consumed = << HeaderLineA, <<"a", "#">>, <<" ", "A", "#">>, <<" ", "a", "#">> >>
    /\ prefix = <<" ", "a">>
    /\ branch = <<"header", "body", "body", "marker">>

----------------------------------------------------------------------------
(* C6 *)

\* C6: the name of the section a marker line opens is the rest of the line after
\* the marker, without the whitespace at either end; so no key begins or ends
\* with whitespace, and every key but "multitext header" is such a rest.
C6_NameIsTrimmedRest ==
    pc # "discover" /\ HasHeader =>
        LET rests == { Strip(SubSeq(consumed[i], Len(prefix) + 1, Len(consumed[i]))) :
                         i \in { j \in 1..Len(consumed) : branch[j] = "marker" } }
        IN  /\ (pc = "accumulate" /\ branch[Len(consumed)] = "marker") =>
                LET line == consumed[Len(consumed)]
                IN  /\ SubSeq(line, 1, Len(prefix)) = prefix
                    /\ name = Strip(SubSeq(line, Len(prefix) + 1, Len(line)))
            /\ \A key \in (DOMAIN map) \cup {name} :
                /\ key # <<>> => ~IsWhitespace(key[1]) /\ ~IsWhitespace(key[Len(key)])
                /\ key = HEADER \/ key \in rests

\* under the marker "#" the line "# a " opened the section named "a"
C6_Witness ==
    /\ pc = "accumulate"
    /\ prefix = <<"#">>
    /\ consumed[Len(consumed)] = <<"#", " ", "a", " ">>
    /\ branch[Len(consumed)] = "marker"
    /\ name = <<"a">>

----------------------------------------------------------------------------
(* C7 *)

\* C7: a section's body is the lines between its marker line and the next marker
\* line (or the end of input), in order, each followed by one newline and
\* otherwise unchanged; only lines that start with the marker end it.  So the
\* text being accumulated is the body of the open section, and every value of the
\* mapping is the body of a closed section of that name.
C7_BodyIsLinesWithNewlines ==
    pc # "discover" /\ HasHeader =>
        LET k == K
            p == Marker
            rest == AfterHeader
            starts == SecStarts(p, rest)
            closed == IF pc = "done" THEN starts ELSE starts \ {Max(starts)}
        IN  /\ text = SecBody(rest, starts, Max(starts))
            /\ \A i \in 1..Len(rest) : (i \notin starts) <=> (branch[k + i] = "body")
            /\ \A key \in DOMAIN map :
                 \E i \in closed :
                    /\ SecName(p, rest, i) = key
                    /\ map[key] = SecBody(rest, starts, i)

\* under the marker "#" the open section holds a whitespace-only line and a line
\* with the marker after its start, both kept as they are
C7_Witness ==
    /\ pc = "accumulate"
    /\ prefix = <<"#">>
    /\ name = <<"a">>
    /\ Len(consumed) = 4
    /\ consumed[3] = <<" ">>
    /\ consumed[4] = <<" ", "a", "#">>
    /\ text = <<" ", NL, " ", "a", "#", NL>>

----------------------------------------------------------------------------
(* C8 *)

\* C8: the lines before the header line reach no key and no body, and the header
\* line gives the marker and nothing else: right after it the mapping is empty,
\* the section is named "multitext header" and its body is empty, and the
\* returned mapping is the one that the marker and the lines after the header
\* line stand for, whatever came before and whatever follows "multitext header"
\* on the header line.
C8_TextAboveHeaderDiscarded ==
    /\ pc = "discover" => map = EmptyMap /\ branch = [i \in 1..Len(consumed) |-> "skip"]
    /\ (pc = "accumulate" /\ branch[Len(consumed)] = "header") =>
            /\ \A i \in 1..(Len(consumed) - 1) : branch[i] = "skip"
            /\ map = EmptyMap
            /\ name = HEADER
            /\ text = <<>>
    /\ ReturnedOk => result.map = ExpectedMap(Marker, AfterHeader)

\* two lines were consumed before a header line with text after "multitext
\* header", and the mapping returned has the key "multitext header" and one more
C8_Witness ==
    /\ ReturnedOk
    /\ K = 3
    /\ consumed[K] = HeaderLineA
    /\ DOMAIN result.map = {HEADER, <<"#">>}

----------------------------------------------------------------------------
(* C9 *)

\* C9: the section open at the end of input is in the returned mapping: a marker
\* line that is the last line gives its name the empty body; without any marker
\* line the mapping is the single entry "multitext header" -> all the lines after
\* the header line; so the mapping is never empty.
C9_LastSectionInserted ==
    ReturnedOk =>
        LET p == Marker
            rest == AfterHeader
            starts == SecStarts(p, rest)
            last == Max(starts)
            lastName == SecName(p, rest, last)
        IN  /\ DOMAIN result.map # {}
            /\ name \in DOMAIN result.map
            /\ result.map[name] = text
            /\ lastName \in DOMAIN result.map
            /\ result.map[lastName] = JoinLines(SubSeq(rest, last + 1, Len(rest)))
            /\ (last # 0 /\ last = Len(rest)) => result.map[lastName] = <<>>
            /\ starts = {0} => result.map = (HEADER :> JoinLines(rest))

\* the input ended on the marker line "# a ", after a first section with a body
C9_Witness ==
    /\ ReturnedOk
    /\ prefix = <<"#">>
    /\ Len(consumed) = 3
    /\ consumed[3] = <<"#", " ", "a", " ">>
    /\ branch[3] = "marker"
    /\ result.map[<<"a">>] = <<>>
    /\ result.map[HEADER] # <<>>

----------------------------------------------------------------------------
(* C11 *)

\* the number of sections opened by the lines of a branch history
SectionsOpened(b) == Cardinality({ i \in 1..Len(b) : b[i] \in {"header", "marker"} })

\* C11: every line consumed after the header line either opens one new section
\* (the current pair is stored, the name is the line's trimmed rest, the body
\* starts empty and does not hold the line) or is appended, with one newline, to
\* the body of the current section and changes nothing else; never both, never
\* neither; it opens a section exactly when it starts with the marker.
C11_EachLineOneEffect ==
    [][ (pc = "accumulate" /\ consumed' # consumed) =>
          LET line == consumed'[Len(consumed')]
              opens ==
                /\ SectionsOpened(branch') = SectionsOpened(branch) + 1
                /\ DOMAIN map' = (DOMAIN map) \cup {name}
                /\ map'[name] = text
                /\ \A key \in (DOMAIN map) \ {name} : map'[key] = map[key]
                /\ name' = Strip(SubSeq(line, Len(prefix) + 1, Len(line)))
                /\ text' = <<>>
              appends ==
                /\ SectionsOpened(branch') = SectionsOpened(branch)
                /\ text' = (text \o line) \o <<NL>>
                /\ name' = name
                /\ map' = map
          IN  /\ opens \/ appends
              /\ ~(opens /\ appends)
              /\ opens <=> HasPrefix(line, prefix)
      ]_vars

\* after the header line one line has opened a section and the next one was
\* appended to its body
C11_Witness ==
    /\ pc = "accumulate"
    /\ branch = <<"header", "marker", "body">>
    /\ map = (HEADER :> <<>>)
    /\ text = consumed[3] \o <<NL>>

----------------------------------------------------------------------------
(* C12 *)

\* C12: the parser leaves the first loop for the second exactly at the first
\* line that contains "multitext header", taking its marker there, and never
\* returns to the first loop; the marker is the same in every later state.  A
\* later line that holds "multitext header" is handled like any other: as a
\* marker line if it starts with the marker, as body text otherwise.
C12_DiscoveredOnce ==
    [][ /\ (pc = "discover" /\ pc' = "accumulate") =>
              /\ ~HasHeader
              /\ HasHeader'
              /\ prefix' = DeclaredMarker(consumed'[Len(consumed')])
        /\ (pc = "discover" /\ consumed' # consumed
                /\ ContainsHeader(consumed'[Len(consumed')])) => pc' = "accumulate"
        /\ (pc = "discover" /\ consumed' # consumed
                /\ ~ContainsHeader(consumed'[Len(consumed')])) => pc' = "discover"
        /\ pc # "discover" => (pc' # "discover" /\ prefix' = prefix)
        /\ (pc = "accumulate" /\ consumed' # consumed) =>
              LET line == consumed'[Len(consumed')]
              IN  /\ pc' = "accumulate"
                  /\ branch'[Len(consumed')] =
                        IF HasPrefix(line, prefix) THEN "marker" ELSE "body"
      ]_vars

\* after the header line "#multitext header" a header line with another prefix
\* was taken as body text and the same header line again as a marker line; the
\* marker is still "#"
C12_Witness ==
    /\ pc = "accumulate"
    /\ consumed = << <<"#">> \o HEADER, HeaderLineA, <<"#">> \o HEADER >>
    /\ branch = <<"header", "body", "marker">>
    /\ prefix = <<"#">>
    /\ name = HEADER

----------------------------------------------------------------------------
(* C13 *)

\* C13: when the marker is the empty string, every line after the header line is
\* handled as a marker line: nothing is ever appended to a body, every value of
\* the mapping is empty, and the keys are "multitext header" and the trimmed text
\* of each line after the header line.
C13_EmptyMarkerAllMarkerLines ==
    (pc # "discover" /\ HasHeader) =>
        LET k == K
        IN  DeclaredMarker(consumed[k]) = <<>> =>
              /\ prefix = <<>>
              /\ \A i \in (k + 1)..Len(consumed) : branch[i] = "marker"
              /\ text = <<>>
              /\ \A key \in DOMAIN map : map[key] = <<>>
              /\ ReturnedOk =>
                   DOMAIN result.map =
                      {HEADER} \cup { Strip(consumed[i]) : i \in (k + 1)..Len(consumed) }

\* the header line is "multitext header" itself; the three lines after it, one
\* of them whitespace only, all became keys with empty values
C13_Witness ==
    /\ ReturnedOk
    /\ consumed = << HEADER, <<"a", "#">>, <<" ">>, <<"#", " ", "a", " ">> >>
    /\ result.map = [ key \in {HEADER, <<"a", "#">>, <<>>, <<"#", " ", "a">>} |-> <<>> ]

----------------------------------------------------------------------------
(* C14 *)

\* the text of a header line before the first "multitext header"
BeforeHeader(line) == SubSeq(line, 1, Min(Occurrences(line)))

\* one or more characters, all whitespace
WhitespaceOnly(s) == s # <<>> /\ \A j \in 1..Len(s) : IsWhitespace(s[j])

\* C14 (as stated): when the text before "multitext header" on the header line
\* is whitespace only, the marker is that whitespace, the lines that start with
\* it are the marker lines and a later line that does not start with it is body
\* text.
C14_WhitespaceMarkerKept ==
    (pc # "discover" /\ HasHeader) =>
        LET k == K
            ws == BeforeHeader(consumed[k])
        IN  WhitespaceOnly(ws) =>
              /\ prefix = ws
              /\ \A i \in (k + 1)..Len(consumed) :
                   branch[i] = IF HasPrefix(consumed[i], ws) THEN "marker" ELSE "body"

\* C14 (amended): when the text before "multitext header" on the header line is
\* whitespace only, the marker is the empty string (the whitespace is trimmed
\* away as trailing whitespace), so every later line is a marker line, whether
\* it starts with that whitespace or not, and no line is body text.
C14_WhitespaceMarkerIsEmpty ==
    (pc # "discover" /\ HasHeader) =>
        LET k == K
            ws == BeforeHeader(consumed[k])
        IN  WhitespaceOnly(ws) =>
              /\ prefix = <<>>
              /\ \A i \in (k + 1)..Len(consumed) : branch[i] = "marker"
              /\ text = <<>>

\* the header line is "  multitext header"; "a#", which does not start with
\* whitespace, was handled as a marker line and named a section
C14_Witness ==
    /\ pc = "accumulate"
    /\ consumed = << <<" ", " ">> \o HEADER, <<"a", "#">> >>
    /\ branch = <<"header", "marker">>
    /\ prefix = <<>>
    /\ name = <<"a", "#">>

----------------------------------------------------------------------------
(* C15 *)

\* open_and_parse_file has returned or panicked after parse_lines returned
FileCallOver == pc = "done" /\ returned # Pending

\* C15: when parse_lines fails inside open_and_parse_file, the caller gets an
\* error whose filename is the given path and whose line number and message are
\* those of the error parse_lines made; a mapping is passed through unchanged;
\* parse_lines itself leaves the filename unset.
C15_FilenameAttached ==
    /\ result.kind = "Err" => result.error.filename = None
    /\ (FileCallOver /\ result.kind = "Err") =>
          /\ returned.kind = "Err"
          /\ returned.error.filename = Some(path[1].os)
          /\ returned.error.line_number = result.error.line_number
          /\ returned.error.error_message = result.error.error_message
    /\ (FileCallOver /\ result.kind = "Ok") => returned = result

\* C15, for the paths that are valid Unicode: the statement above holds of them,
\* and for the others the call panics and returns nothing.
C15_FilenameAttachedForUnicodePath ==
    /\ result.kind = "Err" => result.error.filename = None
    /\ (FileCallOver /\ result.kind = "Err") =>
          IF path[1].unicode
          THEN /\ returned.kind = "Err"
               /\ returned.error.filename = Some(path[1].os)
               /\ returned.error.line_number = result.error.line_number
               /\ returned.error.error_message = result.error.error_message
          ELSE returned = Panicked
    /\ (FileCallOver /\ result.kind = "Ok") => returned = result
    /\ pc = "not called" => returned = Err(IoError)

\* a file of two lines without a header line, under a Unicode path: the error
\* came back with the filename and with line number 3
C15_Witness ==
    /\ FileCallOver
    /\ Len(consumed) = 2
    /\ path[1].unicode
    /\ returned = Err([line_number |-> Some(3), filename |-> Some("in.mt"),
                       error_message |-> "missing multitext header"])

----------------------------------------------------------------------------
(* C16 *)

\* C16: parse_lines terminates on every finite input, and it has no outcome,
\* mapping or error, before the input is exhausted: lines are consumed one at a
\* time, each appended once to the history in the order the iterator yields
\* them, only while there is no outcome; the step that produces the outcome
\* consumes nothing (it is the one at which next() is None), and nothing is
\* consumed after it.
C16_TerminatesAfterExhaustion ==
    /\ [](result # Pending => pc = "done")
    /\ [][ /\ consumed' # consumed =>
                /\ pc # "done"
                /\ result = Pending /\ result' = Pending
                /\ \E line \in Pool : consumed' = Append(consumed, line)
           /\ (result = Pending /\ result' # Pending) =>
                /\ consumed' = consumed
                /\ pc' = "done"
           /\ result # Pending => (result' = result /\ consumed' = consumed)
         ]_vars
    /\ <>(pc = "done")

\* three lines were consumed, the header line second, and then Ok was returned
C16_Witness ==
    /\ ReturnedOk
    /\ Len(consumed) = 3
    /\ K = 2
    /\ line_number = 2

----------------------------------------------------------------------------
(* C17 *)

\* C17: the keys of a returned mapping are exactly "multitext header" and the
\* trimmed names of the marker lines after the header line; the number of entries
\* is the number of distinct names among them, and "multitext header" is a key.
C17_KeysAreSectionNames ==
    ReturnedOk =>
        LET p == Marker
            rest == AfterHeader
            markerLines == { i \in 1..Len(rest) : HasPrefix(rest[i], p) }
            names == { Strip(SubSeq(rest[i], Len(p) + 1, Len(rest[i]))) : i \in markerLines }
        IN  /\ DOMAIN result.map = {HEADER} \cup names
            /\ Cardinality(DOMAIN result.map) = Cardinality(names \cup {HEADER})
            /\ Cardinality(DOMAIN result.map) <= 1 + Cardinality(markerLines)
            /\ HEADER \in DOMAIN result.map

\* under the marker " a" two marker lines with different names followed the
\* header line: three sections, three entries
C17_Witness ==
    /\ ReturnedOk
    /\ prefix = <<" ", "a">>
    /\ branch = <<"header", "marker", "body", "marker">>
    /\ Cardinality(DOMAIN result.map) = 3
    /\ <<"#">> \in DOMAIN result.map

----------------------------------------------------------------------------
(* C18 *)

\* C18: once discovered, the marker does not contain "multitext header" and does
\* not end with whitespace: whitespace written between the marker and
\* "multitext header" on the header line is not part of it, so a later line that
\* starts with the marker followed at once by other text is a marker line, named
\* by that text.
C18_MarkerShape ==
    (pc # "discover" /\ HasHeader) =>
        LET k == K
            written == BeforeHeader(consumed[k])
            bare == StripRight(written)
        IN  /\ Occurrences(prefix) = {}
            /\ prefix # <<>> => ~IsWhitespace(prefix[Len(prefix)])
            /\ prefix = bare
            /\ \A i \in (k + 1)..Len(consumed) :
                 (HasPrefix(consumed[i], bare) /\ ~HasPrefix(consumed[i], written)) =>
                    /\ branch[i] = "marker"
                    /\ pc = "accumulate" /\ i = Len(consumed) =>
                         name = Strip(SubSeq(consumed[i], Len(bare) + 1, Len(consumed[i])))

\* the header line " a  multitext header#multitext header" wrote the marker with
\* two spaces after it and holds the literal twice; the marker is " a", and the
\* line " a#" opened the section "#"
C18_Witness ==
    /\ pc = "accumulate"
    /\ consumed = << HeaderLineA, <<" ", "a", "#">> >>
    /\ prefix = <<" ", "a">>
    /\ branch = <<"header", "marker">>
    /\ name = <<"#">>

====
